---- MODULE Spec2Model ----
(***************************************************************************)
(* The functional shopping cart (src/src/cart-refactored-functional.js):   *)
(* the pure cart engine, the storage and display side effects and the      *)
(* CartManager behind the public API; beside it the original script        *)
(* (src/src/cart-before-refactored.js), the SOLID script and the product   *)
(* list of product.js (both in src/unnamed/part_003).                      *)
(*                                                                         *)
(* JavaScript values are records with a type tag t.  A number carries its  *)
(* value in n, counted in halves (n = 2 is the number 1, n = 1 is 0.5), so *)
(* that a non-integer number is a value of the model; s = "NaN" marks NaN. *)
(* A string carries its text in s.  An object (a product, a line item) is  *)
(* a record with t = "object" and one field per property; a property that *)
(* is missing reads as undefined, as in JavaScript.                        *)
(***************************************************************************)
EXTENDS Integers, Sequences, FiniteSets, TLC

VARIABLES
    state,        \* cartManager.state: [items |-> sequence of line items]
    storage,      \* localStorage: the text under 'shoppingCart', or NoEntry
    view,         \* the DOM the cart renders into
    modal,        \* the confirmation modal and its event listeners
    lastOp,       \* the last call that reached the cart: its name and the
                  \* number of line items it started from
    page,         \* the page that loads cart-before-refactored.js or the
                  \* SOLID script: its readyState, localStorage and DOM
    cartItems,    \* cart-before-refactored.js: let cartItems
    cartCount,    \* cart-before-refactored.js: let cartCount
    cartTotal,    \* cart-before-refactored.js: let cartTotal
    cart,         \* SOLID script: cartService.cart, its items in Map order
    cartService,  \* SOLID script: let cartService
    session,      \* history: the snapshot the page found in localStorage and
                  \* the ids its calls removed or cleared
    productManager, \* product.js: the fields of productManager
    fetches       \* product.js: the loadProducts calls awaiting fetchProducts

\* The variables of the functional script's page.
functionalVars == <<state, storage, view, modal>>

\* The variables of the page of the original or of the SOLID script.
pageVars == <<page, cartItems, cartCount, cartTotal, cart, cartService, session>>

\* The variables of product.js.
productVars == <<productManager, fetches>>

vars == <<functionalVars, lastOp, pageVars, productVars>>

\* ------------------------------------------------------------------------
\* Bounds
\* ------------------------------------------------------------------------

\* Largest quantity (as a whole number) an item is driven to.
MaxQty == 2

\* Most Escape / background-click handlers left registered at once.
MaxListeners == 2

\* Most calls of product.js awaiting fetchProducts() at once.
MaxLoads == 3

\* ------------------------------------------------------------------------
\* JavaScript values
\* ------------------------------------------------------------------------

Undefined == [t |-> "undefined", s |-> "", n |-> 0]
Null == [t |-> "null", s |-> "", n |-> 0]
NaN == [t |-> "number", s |-> "NaN", n |-> 0]
Str(s) == [t |-> "string", s |-> s, n |-> 0]
\* The number h/2.
Halves(h) == [t |-> "number", s |-> "", n |-> h]
\* The whole number i.
Num(i) == Halves(2 * i)

\* typeof x
TypeOf(x) == IF x.t = "null" THEN "object" ELSE x.t

IsNaN(x) == x.t = "number" /\ x.s = "NaN"

\* Boolean(x): the truthiness `x && ...`, `if (x)` and `x ? a : b` test.
Truthy(x) ==
    CASE x.t = "undefined" -> FALSE
      [] x.t = "null" -> FALSE
      [] x.t = "string" -> x.s # ""
      [] x.t = "number" -> ~IsNaN(x) /\ x.n # 0
      [] OTHER -> TRUE

\* Number(string) for the strings the model uses as ids and names.
StringToNumber(s) ==
    CASE s = "" -> Num(0)
      [] s = "1" -> Num(1)
      [] s = "2" -> Num(2)
      [] s = "3" -> Num(3)
      [] s = "9" -> Num(9)
      [] OTHER -> NaN

\* Number(x) for a primitive x.
ToNumber(x) ==
    CASE x.t = "number" -> x
      [] x.t = "string" -> StringToNumber(x.s)
      [] x.t = "null" -> Num(0)
      [] OTHER -> NaN

\* a === b for primitives.
StrictEq(a, b) == a.t = b.t /\ ~IsNaN(a) /\ ~IsNaN(b) /\ a = b

\* a == b for primitives (null and undefined equal each other only; a string
\* and a number compare as numbers).
LooseEq(a, b) ==
    IF a.t = b.t THEN StrictEq(a, b)
    ELSE IF a.t \in {"undefined", "null"} \/ b.t \in {"undefined", "null"}
         THEN a.t \in {"undefined", "null"} /\ b.t \in {"undefined", "null"}
         ELSE StrictEq(ToNumber(a), ToNumber(b))

\* a + b where both are numbers.
JsAdd(a, b) ==
    LET x == ToNumber(a)
        y == ToNumber(b)
    IN IF IsNaN(x) \/ IsNaN(y) THEN NaN ELSE Halves(x.n + y.n)

\* a * b; exact because every price of the model is a whole number.
JsMul(a, b) ==
    LET x == ToNumber(a)
        y == ToNumber(b)
    IN IF IsNaN(x) \/ IsNaN(y) THEN NaN ELSE Halves((x.n * y.n) \div 2)

\* a - b where both are numbers.
JsSub(a, b) ==
    LET x == ToNumber(a)
        y == ToNumber(b)
    IN IF IsNaN(x) \/ IsNaN(y) THEN NaN ELSE Halves(x.n - y.n)

\* a > b, a < b, a <= b, a >= b: false when either side is NaN.
JsGt(a, b) ==
    LET x == ToNumber(a)
        y == ToNumber(b)
    IN ~IsNaN(x) /\ ~IsNaN(y) /\ x.n > y.n

JsLt(a, b) == JsGt(b, a)

JsGe(a, b) ==
    LET x == ToNumber(a)
        y == ToNumber(b)
    IN ~IsNaN(x) /\ ~IsNaN(y) /\ x.n >= y.n

JsLe(a, b) == JsGe(b, a)

\* ------------------------------------------------------------------------
\* Constants of the program
\* ------------------------------------------------------------------------

STORAGE_KEYS == [CART |-> "shoppingCart"]

SHIPPING_CONFIG == [FREE_SHIPPING_THRESHOLD |-> Num(5000), SHIPPING_FEE |-> Num(100)]

\* ------------------------------------------------------------------------
\* Pure functions: the cart engine
\* ------------------------------------------------------------------------

createEmptyCart == [items |-> <<>>]

RECURSIVE calculateTotalCountFrom(_, _, _)
calculateTotalCountFrom(items, i, total) ==
    IF i > Len(items) THEN total
    ELSE calculateTotalCountFrom(items, i + 1, JsAdd(total, items[i].quantity))

calculateTotalCount(items) == calculateTotalCountFrom(items, 1, Num(0))

RECURSIVE calculateTotalPriceFrom(_, _, _)
calculateTotalPriceFrom(items, i, total) ==
    IF i > Len(items) THEN total
    ELSE calculateTotalPriceFrom(items, i + 1,
             JsAdd(total, JsMul(items[i].price, items[i].quantity)))

calculateTotalPrice(items) == calculateTotalPriceFrom(items, 1, Num(0))

\* calculateShippingFee with > instead of >=.
calculateShippingFeeAboveOnly(totalPrice) ==
    IF JsGt(totalPrice, SHIPPING_CONFIG.FREE_SHIPPING_THRESHOLD)
    THEN Num(0)
    ELSE SHIPPING_CONFIG.SHIPPING_FEE

calculateShippingFee(totalPrice) ==
    IF JsGe(totalPrice, SHIPPING_CONFIG.FREE_SHIPPING_THRESHOLD)
    THEN Num(0)
    ELSE SHIPPING_CONFIG.SHIPPING_FEE

calculateFinalTotal(totalPrice, shippingFee) == JsAdd(totalPrice, shippingFee)

calculateCartDerivedData(cartState) ==
    LET totalCount == calculateTotalCount(cartState.items)
        totalPrice == calculateTotalPrice(cartState.items)
        shippingFee == calculateShippingFee(totalPrice)
        finalTotal == calculateFinalTotal(totalPrice, shippingFee)
    IN [totalCount |-> totalCount, totalPrice |-> totalPrice,
        shippingFee |-> shippingFee, finalTotal |-> finalTotal]

\* items.find(item => item.id === productId): the first match, or undefined.
findCartItemById(items, productId) ==
    LET hits == {i \in DOMAIN items : StrictEq(items[i].id, productId)}
    IN IF hits = {} THEN Undefined
       ELSE items[CHOOSE i \in hits : \A j \in hits : i <= j]

createCartItem(product, quantity) ==
    [t |-> "object", id |-> product.id, name |-> product.name,
     price |-> product.price, image |-> product.image, quantity |-> quantity]

\* addItemToCart with a new line item put first instead of last.
addItemToCartPrepending(cartState, product) ==
    LET existingItem == findCartItemById(cartState.items, product.id)
    IN IF Truthy(existingItem)
       THEN LET Bump(item) ==
                    IF StrictEq(item.id, product.id)
                    THEN [item EXCEPT !.quantity = JsAdd(item.quantity, Num(1))]
                    ELSE item
            IN [cartState EXCEPT !.items =
                   [i \in DOMAIN cartState.items |-> Bump(cartState.items[i])]]
       ELSE LET newItem == createCartItem(product, Num(1))
            IN [cartState EXCEPT !.items = <<newItem>> \o cartState.items]

addItemToCart(cartState, product) ==
    LET existingItem == findCartItemById(cartState.items, product.id)
    IN IF Truthy(existingItem)
       THEN LET Bump(item) ==
                    IF StrictEq(item.id, product.id)
                    THEN [item EXCEPT !.quantity = JsAdd(item.quantity, Num(1))]
                    ELSE item
            IN [cartState EXCEPT !.items =
                   [i \in DOMAIN cartState.items |-> Bump(cartState.items[i])]]
       ELSE LET newItem == createCartItem(product, Num(1))
            IN [cartState EXCEPT !.items = Append(cartState.items, newItem)]

\* removeItemFromCart comparing ids with != instead of !==.
removeItemFromCartLoosely(cartState, productId) ==
    LET Keep(item) == ~LooseEq(item.id, productId)
    IN [cartState EXCEPT !.items = SelectSeq(cartState.items, Keep)]

\* removeItemFromCart dropping only the first line item of the id.
removeItemFromCartFirstOnly(cartState, productId) ==
    LET hits == {i \in DOMAIN cartState.items : StrictEq(cartState.items[i].id, productId)}
        first == CHOOSE i \in hits : \A j \in hits : i <= j
    IN IF hits = {} THEN cartState
       ELSE [cartState EXCEPT !.items =
                SubSeq(cartState.items, 1, first - 1)
                    \o SubSeq(cartState.items, first + 1, Len(cartState.items))]

removeItemFromCart(cartState, productId) ==
    LET Keep(item) == ~StrictEq(item.id, productId)
    IN [cartState EXCEPT !.items = SelectSeq(cartState.items, Keep)]

\* updateItemQuantity removing for newQuantity < 0 only.
updateItemQuantityStoringZero(cartState, productId, newQuantity) ==
    IF JsLt(newQuantity, Num(0))
    THEN removeItemFromCart(cartState, productId)
    ELSE LET Set(item) ==
                 IF StrictEq(item.id, productId)
                 THEN [item EXCEPT !.quantity = newQuantity]
                 ELSE item
         IN [cartState EXCEPT !.items =
                [i \in DOMAIN cartState.items |-> Set(cartState.items[i])]]

updateItemQuantity(cartState, productId, newQuantity) ==
    IF JsLe(newQuantity, Num(0))
    THEN removeItemFromCart(cartState, productId)
    ELSE LET Set(item) ==
                 IF StrictEq(item.id, productId)
                 THEN [item EXCEPT !.quantity = newQuantity]
                 ELSE item
         IN [cartState EXCEPT !.items =
                [i \in DOMAIN cartState.items |-> Set(cartState.items[i])]]

\* clearCart returning the state it was given.
clearCartKeeping(cartState) == cartState

clearCart(cartState) == createEmptyCart

\* isValidCartItem without the check of the name.
isValidCartItemIgnoringName(item) ==
    /\ Truthy(item)
    /\ TypeOf(item.id) = "string"
    /\ TypeOf(item.price) = "number"
    /\ TypeOf(item.quantity) = "number"
    /\ JsGt(item.quantity, Num(0))

\* item && typeof item.id === 'string' && ... && item.quantity > 0
isValidCartItem(item) ==
    /\ Truthy(item)
    /\ TypeOf(item.id) = "string"
    /\ TypeOf(item.name) = "string"
    /\ TypeOf(item.price) = "number"
    /\ TypeOf(item.quantity) = "number"
    /\ JsGt(item.quantity, Num(0))

\* The JavaScript array holding the elements of a sequence.
ArrayOf(seq) == [t |-> "array", a |-> seq]

\* cartState && Array.isArray(cartState.items) && cartState.items.every(isValidCartItem)
\* for a cartState whose items property is any JavaScript value.
isValidCartState(cartState) ==
    /\ cartState.items.t = "array"
    /\ \A i \in DOMAIN cartState.items.a : isValidCartItem(cartState.items.a[i])

\* ------------------------------------------------------------------------
\* The cart engine over object identities
\* ------------------------------------------------------------------------

\* The objects the engine's functions are given and create, by address: a
\* heap is a sequence of cells and an address an index of it.  A cell is a
\* line item, an array (the addresses of its elements) or a cart state (the
\* address of its items array).
ArrayCell(refs) == [t |-> "array cell", refs |-> refs]

StateCell(items) == [t |-> "state cell", items |-> items]

\* The heap holding cartState alone: the state object at address 1, its items
\* array at address 2 and the line items after it.
HeapOf(cartState) ==
    <<StateCell(2), ArrayCell([i \in DOMAIN cartState.items |-> i + 2])>>
        \o cartState.items

\* The addresses of the elements of the items array of the state at ref.
ItemRefs(heap, ref) == heap[heap[ref].items].refs

\* The cart state the object at ref is.
Deref(heap, ref) ==
    [items |-> [i \in DOMAIN ItemRefs(heap, ref) |-> heap[ItemRefs(heap, ref)[i]]]]

\* items.map(item => item.id === id ? {...item, quantity: ...} : item) and
\* {...cartState, items: ...}: every matching item gets a new object with
\* the quantity newQuantity gives its position, the others are shared, and
\* the array and the state object are new.
MapQuantityOnHeap(heap, ref, id, newQuantity) ==
    LET refs == ItemRefs(heap, ref)
        Hit(i) == StrictEq(heap[refs[i]].id, id)
        Hits(i) == Cardinality({j \in 1 .. i : Hit(j)})
        hits == Hits(Len(refs))
        copies == [k \in 1 .. hits |->
                      LET i == CHOOSE j \in DOMAIN refs : Hit(j) /\ Hits(j) = k
                      IN [heap[refs[i]] EXCEPT !.quantity = newQuantity[i]]]
        mapped == [i \in DOMAIN refs |->
                      IF Hit(i) THEN Len(heap) + Hits(i) ELSE refs[i]]
    IN [heap |-> heap \o copies
                      \o <<ArrayCell(mapped), StateCell(Len(heap) + hits + 1)>>,
        result |-> Len(heap) + hits + 2]

\* addItemToCart as cart-before-refactored.js adds: the quantity of the
\* item found is incremented in place, or the new item is pushed onto the
\* array, and the state given is the result.
addItemToCartInPlace(heap, ref, product) ==
    LET refs == ItemRefs(heap, ref)
        hits == {i \in DOMAIN refs : StrictEq(heap[refs[i]].id, product.id)}
        first == CHOOSE i \in hits : \A j \in hits : i <= j
    IN IF hits # {}
       THEN [heap |-> [heap EXCEPT ![refs[first]].quantity = JsAdd(@, Num(1))],
             result |-> ref]
       ELSE [heap |-> [heap EXCEPT ![heap[ref].items].refs = Append(@, Len(heap) + 1)]
                          \o <<createCartItem(product, Num(1))>>,
             result |-> ref]

\* addItemToCart(cartState, product) over the heap: the heap afterwards and
\* the address of the state returned.
addItemToCartOnHeap(heap, ref, product) ==
    LET refs == ItemRefs(heap, ref)
        incremented == [i \in DOMAIN refs |-> JsAdd(heap[refs[i]].quantity, Num(1))]
    IN IF \E i \in DOMAIN refs : StrictEq(heap[refs[i]].id, product.id)
       THEN MapQuantityOnHeap(heap, ref, product.id, incremented)
       ELSE [heap |-> heap \o <<createCartItem(product, Num(1)),
                                 ArrayCell(Append(refs, Len(heap) + 1)),
                                 StateCell(Len(heap) + 2)>>,
             result |-> Len(heap) + 3]

\* removeItemFromCart(cartState, productId) over the heap: filter gives a
\* new array of the items kept.
removeItemFromCartOnHeap(heap, ref, productId) ==
    LET Keep(r) == ~StrictEq(heap[r].id, productId)
    IN [heap |-> heap \o <<ArrayCell(SelectSeq(ItemRefs(heap, ref), Keep)),
                            StateCell(Len(heap) + 1)>>,
        result |-> Len(heap) + 2]

\* updateItemQuantity(cartState, productId, newQuantity) over the heap.
updateItemQuantityOnHeap(heap, ref, productId, newQuantity) ==
    IF JsLe(newQuantity, Num(0))
    THEN removeItemFromCartOnHeap(heap, ref, productId)
    ELSE MapQuantityOnHeap(heap, ref, productId,
                           [i \in DOMAIN ItemRefs(heap, ref) |-> newQuantity])

\* clearCart(cartState) = createEmptyCart() over the heap: a new state
\* object with a new empty array.
clearCartOnHeap(heap, ref) ==
    [heap |-> heap \o <<ArrayCell(<<>>), StateCell(Len(heap) + 1)>>,
     result |-> Len(heap) + 2]

\* ------------------------------------------------------------------------
\* Side effects: local storage
\* ------------------------------------------------------------------------

ItemKeys == {"id", "name", "price", "image", "quantity"}

\* localStorage.getItem gives null: nothing is stored under the key.
NoEntry == [k |-> "none"]

\* A localStorage whose setItem throws (its quota is exceeded, or the
\* browser denies writing): what it holds stays what it held.
SetItemThrows(held) == [k |-> "read-only", held |-> held]

\* localStorage.getItem(key): the stored text, or NoEntry.
getItem(store) == IF store.k = "read-only" THEN store.held ELSE store

\* A stored text: the empty string, a text JSON.parse rejects, or the JSON
\* text of null, of an object that is no array, or of an array.
EmptyText == [k |-> "text", j |-> "empty"]
InvalidText == [k |-> "text", j |-> "invalid"]
NullText == [k |-> "text", j |-> "null"]
ObjectText == [k |-> "text", j |-> "object"]
ArrayText(elements) == [k |-> "text", j |-> "array", a |-> elements]

\* JSON.stringify of one property value: NaN is written as null.
StringifyValue(x) == IF IsNaN(x) THEN Null ELSE x

\* JSON.stringify of a line item: a property that is undefined is left out.
StringifyItem(item) ==
    [j |-> "object",
     o |-> [f \in {g \in ItemKeys : item[g].t # "undefined"} |-> StringifyValue(item[f])]]

\* JSON.stringify(items)
JsonStringify(items) == ArrayText([i \in DOMAIN items |-> StringifyItem(items[i])])

\* JSON.parse of one array element: null, or an object whose missing
\* properties read as undefined.
ParseElement(e) ==
    IF e.j = "null" THEN Null
    ELSE [t |-> "object",
          id |-> IF "id" \in DOMAIN e.o THEN e.o["id"] ELSE Undefined,
          name |-> IF "name" \in DOMAIN e.o THEN e.o["name"] ELSE Undefined,
          price |-> IF "price" \in DOMAIN e.o THEN e.o["price"] ELSE Undefined,
          image |-> IF "image" \in DOMAIN e.o THEN e.o["image"] ELSE Undefined,
          quantity |-> IF "quantity" \in DOMAIN e.o THEN e.o["quantity"] ELSE Undefined]

\* JSON.parse(text): [threw |-> TRUE] or the parsed value.
JsonParse(text) ==
    CASE text.j = "invalid" -> [threw |-> TRUE]
      [] text.j = "null" -> [threw |-> FALSE, value |-> Null]
      [] text.j = "object" -> [threw |-> FALSE, value |-> [t |-> "object"]]
      [] text.j = "array" ->
             [threw |-> FALSE,
              value |-> ArrayOf([i \in DOMAIN text.a |-> ParseElement(text.a[i])])]

\* item ? JSON.parse(item) : defaultValue, and defaultValue when it throws.
safeGetFromStorage(store, defaultValue) ==
    LET item == getItem(store)
    IN IF item.k = "none" \/ item.j = "empty" THEN defaultValue
       ELSE LET parsed == JsonParse(item)
            IN IF parsed.threw THEN defaultValue ELSE parsed.value

\* localStorage.setItem(key, JSON.stringify(value)): the store afterwards.
\* An exception of setItem is caught and logged, and the store is as it was.
safeSetToStorage(store, value) ==
    IF store.k = "read-only" THEN store ELSE JsonStringify(value)

loadCartFromStorage(store) ==
    LET savedItems == safeGetFromStorage(store, ArrayOf(<<>>))
        cartState == [items |-> savedItems]
    IN IF isValidCartState(cartState) THEN [items |-> savedItems.a] ELSE createEmptyCart

saveCartToStorage(store, cartState) == safeSetToStorage(store, cartState.items)

\* ------------------------------------------------------------------------
\* Side effects: the DOM
\* ------------------------------------------------------------------------

\* formatPrice(price): the text "NT$ " followed by the number.
formatPrice(price) == [prefix |-> "NT$ ", number |-> price]

\* price.toLocaleString() throws a TypeError when price is undefined or null.
formatPriceThrows(price) == price.t \in {"undefined", "null"}

\* cartItemToHtml(item) throws when formatPrice(item.price) does; the line
\* total item.price * item.quantity is always a number.
cartItemToHtmlThrows(item) == formatPriceThrows(item.price)

\* What cartItemToHtml writes of an item: its id, image, name, price, the
\* arguments of the two quantity buttons, the quantity and the line total.
cartItemToHtml(item) ==
    [id |-> item.id, image |-> item.image, name |-> item.name,
     price |-> formatPrice(item.price),
     minus |-> JsAdd(item.quantity, Num(-1)),
     quantity |-> item.quantity,
     plus |-> JsAdd(item.quantity, Num(1)),
     total |-> formatPrice(JsMul(item.price, item.quantity))]

updateCartCountDisplay(dom, count) == [dom EXCEPT !.count = count]

updateCartItemsDisplay(dom, items) ==
    IF Len(items) = 0 THEN [dom EXCEPT !.items = <<>>]
    ELSE [dom EXCEPT !.items = [i \in DOMAIN items |-> cartItemToHtml(items[i])]]

\* The total panel keeps its earlier content while the cart is empty.
updateCartTotalDisplay(dom, totalPrice, shippingFee, finalTotal, isEmpty) ==
    IF isEmpty
    THEN [dom EXCEPT !.totalDisplay = "none", !.emptyDisplay = "block"]
    ELSE [dom EXCEPT !.totalDisplay = "block",
                     !.totalHtml = <<formatPrice(totalPrice), formatPrice(shippingFee),
                                     formatPrice(finalTotal)>>,
                     !.emptyDisplay = "none"]

\* items.map(cartItemToHtml) throws: the exception leaves
\* updateCartItemsDisplay before the container is written.
updateCartItemsDisplayThrows(items) ==
    \E i \in DOMAIN items : cartItemToHtmlThrows(items[i])

\* The DOM when updateCartDisplayInternal returns or throws: the count is
\* written first, and an exception of updateCartItemsDisplay leaves the item
\* list, the total panel and the empty-cart notice as they were.
updateCartDisplayInternal(dom, cartState) ==
    LET derivedData == calculateCartDerivedData(cartState)
        counted == updateCartCountDisplay(dom, derivedData.totalCount)
        listed == updateCartItemsDisplay(counted, cartState.items)
    IN IF updateCartItemsDisplayThrows(cartState.items)
       THEN counted
       ELSE updateCartTotalDisplay(listed, derivedData.totalPrice,
                                   derivedData.shippingFee, derivedData.finalTotal,
                                   Len(cartState.items) = 0)

\* ------------------------------------------------------------------------
\* The confirmation modal of CartManager
\* ------------------------------------------------------------------------

\* addModalEventListeners: a new Escape handler and a new background-click
\* handler are registered and remembered in the manager's two fields.
addModalEventListeners(m) ==
    [m EXCEPT !.escKeyHandler = TRUE, !.keydownListeners = @ + 1,
              !.backgroundClickHandler = TRUE, !.clickListeners = @ + 1]

\* removeModalEventListeners: the handlers the two fields remember are
\* removed, and the fields are cleared.
removeModalEventListeners(m) ==
    [m EXCEPT !.escKeyHandler = FALSE,
              !.keydownListeners = IF m.escKeyHandler THEN @ - 1 ELSE @,
              !.backgroundClickHandler = FALSE,
              !.clickListeners = IF m.backgroundClickHandler THEN @ - 1 ELSE @]

showConfirmModal(m) ==
    addModalEventListeners([m EXCEPT !.display = "flex", !.overflow = "hidden"])

hideConfirmModal(m) ==
    removeModalEventListeners([m EXCEPT !.display = "none", !.overflow = "auto"])

\* ------------------------------------------------------------------------
\* Inputs
\* ------------------------------------------------------------------------

Product(id, name, price, image) ==
    [t |-> "object", id |-> id, name |-> name, price |-> price, image |-> image]

IPhone == Product(Str("1"), Str("iPhone 15 Pro"), Num(2500), Str("iphone.png"))
\* The product of id 1 as an earlier session stored it, at another price
\* and under another name and image.
IPhoneRepriced == Product(Str("1"), Str("iPhone 15 Pro Max"), Num(2000), Str("max.png"))
MacBook == Product(Str("2"), Str("MacBook Air M2"), Num(4999), Str("macbook.png"))
\* Malformed: a number as id, no name, a negative price and no image.
Malformed == Product(Num(1), Undefined, Num(-5), Undefined)
\* Unpriced: a product record without a price.
Unpriced == Product(Str("3"), Str("AirPods Pro"), Undefined, Str("airpods.png"))

Products == {IPhone, MacBook, Malformed}

\* The ids the public API is called with: ids of products (the number 1
\* is the malformed product's, and == to the string "1") and an id of no
\* product.
ProductIds == {Str("1"), Str("2"), Str("9"), Num(1)}

\* The quantities changeQuantity is called with.
Quantities == {Num(q) : q \in -1 .. MaxQty}

\* What window.confirm does when it is asked.
ConfirmOutcomes == {"true", "false", "null", "undefined", "throws", "not a function"}

\* A stored line item with all five properties.
StoredItem(id, name, price, image, quantity) ==
    [j |-> "object",
     o |-> [id |-> id, name |-> name, price |-> price, image |-> image,
            quantity |-> quantity]]

StoredProduct(product, quantity) ==
    StoredItem(product.id, product.name, product.price, product.image, quantity)

\* What an earlier session, or anything else writing the key, may have left
\* in localStorage when the script starts.
InitialStores ==
    { NoEntry, EmptyText, InvalidText, NullText, ObjectText,
      ArrayText(<<>>),
      ArrayText(<<StoredProduct(IPhone, Num(2))>>),
      ArrayText(<<StoredProduct(MacBook, Num(1)), StoredProduct(IPhone, Num(1))>>),
      \* two records of one id
      ArrayText(<<StoredProduct(IPhone, Num(1)), StoredProduct(IPhoneRepriced, Num(2))>>),
      \* a quantity of 0.5
      ArrayText(<<StoredProduct(MacBook, Halves(1))>>),
      \* an empty id and name, a negative price, no image
      ArrayText(<<[j |-> "object",
                   o |-> [id |-> Str(""), name |-> Str(""), price |-> Num(-5),
                          quantity |-> Num(1)]]>>),
      \* rejected: a null element, a quantity of 0, a record without a name
      ArrayText(<<StoredProduct(IPhone, Num(1)), [j |-> "null"]>>),
      ArrayText(<<StoredProduct(IPhone, Num(0))>>),
      ArrayText(<<[j |-> "object",
                   o |-> [id |-> Str("1"), price |-> Num(2500), quantity |-> Num(1)]]>>) }

\* ------------------------------------------------------------------------
\* CartManager and the public API
\* ------------------------------------------------------------------------

\* new CartManager(): the state is loaded from storage and displayed.  The
\* page's own markup shows no modal and an empty total panel.
ManagerConstructed ==
    /\ state = loadCartFromStorage(storage)
    /\ view = updateCartDisplayInternal(
                  [count |-> Num(0), items |-> <<>>, totalDisplay |-> "none",
                   totalHtml |-> <<>>, emptyDisplay |-> "block"], state)
    /\ modal = [display |-> "none", overflow |-> "",
                escKeyHandler |-> FALSE, keydownListeners |-> 0,
                backgroundClickHandler |-> FALSE, clickListeners |-> 0]
    /\ lastOp = [name |-> "new CartManager", itemsBefore |-> 0]

\* The page's own markup: a count of 0, no items, the total panel hidden.
PageMarkup ==
    [count |-> Num(0), items |-> <<>>, totalDisplay |-> "none",
     totalHtml |-> <<>>, emptyDisplay |-> "block"]

\* No page has loaded cart-before-refactored.js or the SOLID script.
NoPage ==
    /\ page = [script |-> "none", readyState |-> "complete", localStorage |-> NoEntry,
               dom |-> PageMarkup, notification |-> "none"]
    /\ cartItems = <<>>
    /\ cartCount = Num(0)
    /\ cartTotal = Num(0)
    /\ cart = <<>>
    /\ cartService = "undefined"
    /\ session = [persisted |-> <<>>, removed |-> {}]

\* product.js: new ProductManager() has no products and is not loading.
\* container is what #products-container holds: the page's markup, the
\* loading notice, or the HTML of a product array.
ProductManagerConstructed ==
    /\ productManager = [products |-> "[]", isLoading |-> FALSE, container |-> "markup"]
    /\ fetches = <<>>

Init ==
    /\ storage \in InitialStores
    /\ ManagerConstructed
    /\ NoPage
    /\ ProductManagerConstructed

\* What the manager's methods read and write: the cart state, the stored
\* text and the rendered view.
World == [state |-> state, storage |-> storage, view |-> view]

\* saveState() and updateDisplay() once the manager's state is newState.
SavedAndDisplayed(w, newState) ==
    [state |-> newState,
     storage |-> saveCartToStorage(w.storage, newState),
     view |-> updateCartDisplayInternal(w.view, newState)]

\* CartManager.addItem without its call of saveState().
addItemWithoutSave(w, product) ==
    LET newState == addItemToCart(w.state, product)
    IN [state |-> newState, storage |-> w.storage,
        view |-> updateCartDisplayInternal(w.view, newState)]

\* CartManager.addItem(product).  (The notifications the manager shows are
\* transient and not part of the view.)
addItem(w, product) == SavedAndDisplayed(w, addItemToCart(w.state, product))

\* CartManager.removeItem(productId)
removeItem(w, productId) == SavedAndDisplayed(w, removeItemFromCart(w.state, productId))

\* CartManager.updateQuantity(productId, quantity)
updateQuantity(w, productId, quantity) ==
    SavedAndDisplayed(w, updateItemQuantity(w.state, productId, quantity))

\* CartManager.clear()
clear(w) == SavedAndDisplayed(w, clearCart(w.state))

\* CartManager.reset(): localStorage.clear() instead of a save.
reset(w) ==
    [state |-> createEmptyCart, storage |-> NoEntry,
     view |-> updateCartDisplayInternal(w.view, createEmptyCart)]

\* The first element of list whose id == productId, or undefined.
FirstLooseMatch(list, productId) ==
    LET hits == {i \in DOMAIN list : LooseEq(list[i].id, productId)}
    IN IF hits = {} THEN Undefined
       ELSE list[CHOOSE i \in hits : \A j \in hits : i <= j]

\* Whether changeQuantity asks window.confirm before it goes on.
AsksConfirmation(list, productId, quantity) ==
    LET itemLike == FirstLooseMatch(list, productId)
    IN /\ Truthy(itemLike)
       /\ (StrictEq(itemLike.quantity, Num(1)) \/ JsLt(itemLike.quantity, Num(1)))
       /\ ~JsGt(quantity, Num(0))

\* GoAfter going on only when window.confirm returned true.
GoAfterTrueOnly(outcome) == outcome = "true"

\* The value of go once window.confirm was asked, as !go reads it: false
\* when it returned false or null, true when it returned true or undefined,
\* threw or was no function.
GoAfter(outcome) == outcome \notin {"false", "null"}

\* The world when changeQuantity(productId, quantity) returns, outcome being
\* what window.confirm does if it is asked.
changeQuantityReturn(w, productId, quantity, outcome) ==
    LET asked == AsksConfirmation(w.state.items, productId, quantity)
        go == IF asked THEN GoAfter(outcome) ELSE TRUE
    IN IF go THEN updateQuantity(w, productId, quantity) ELSE w

\* calculateTotal(): the final total of a copy of the manager's state.
calculateTotal(w) == calculateCartDerivedData(w.state).finalTotal

\* The step that takes the world to w.
Becomes(w) ==
    /\ state' = w.state
    /\ storage' = w.storage
    /\ view' = w.view

\* Every line item the add would touch is below the largest quantity.
BelowMaxQty(product) ==
    \A i \in DOMAIN state.items :
        StrictEq(state.items[i].id, product.id)
            => JsLt(state.items[i].quantity, Num(MaxQty))

\* addToCart(product)
addToCart(product) ==
    /\ BelowMaxQty(product)
    /\ Becomes(addItem(World, product))
    /\ lastOp' = [name |-> "addToCart", itemsBefore |-> Len(state.items)]
    /\ UNCHANGED <<modal, pageVars, productVars>>

\* removeFromCart(productId)
removeFromCart(productId) ==
    /\ Becomes(removeItem(World, productId))
    /\ lastOp' = [name |-> "removeFromCart", itemsBefore |-> Len(state.items)]
    /\ UNCHANGED <<modal, pageVars, productVars>>

\* changeQuantity(productId, quantity); the outcome of window.confirm is
\* drawn only when it is asked.
changeQuantity(productId, quantity, outcome) ==
    /\ AsksConfirmation(state.items, productId, quantity) \/ outcome = "true"
    /\ Becomes(changeQuantityReturn(World, productId, quantity, outcome))
    /\ lastOp' = [name |-> "changeQuantity", itemsBefore |-> Len(state.items)]
    /\ UNCHANGED <<modal, pageVars, productVars>>

\* clearAllCart clearing the cart at once, as cartManager.clear() does.
clearAllCartAtOnce ==
    /\ modal.keydownListeners < MaxListeners
    /\ Becomes(clear(World))
    /\ lastOp' = [name |-> "clearAllCart", itemsBefore |-> Len(state.items)]
    /\ UNCHANGED <<modal, pageVars, productVars>>

\* clearAllCart() = cartManager.showClearCartConfirmation()
clearAllCart ==
    /\ modal.keydownListeners < MaxListeners
    /\ modal' = showConfirmModal(modal)
    /\ UNCHANGED <<state, storage, view, lastOp, pageVars, productVars>>

\* closeConfirmModal() = cartManager.hideConfirmModal()
closeConfirmModal ==
    /\ modal' = hideConfirmModal(modal)
    /\ UNCHANGED <<state, storage, view, lastOp, pageVars, productVars>>

\* confirmClearCart() = cartManager.confirmClearCart(): hide, then clear().
confirmClearCart ==
    /\ modal' = hideConfirmModal(modal)
    /\ Becomes(clear(World))
    /\ lastOp' = [name |-> "confirmClearCart", itemsBefore |-> Len(state.items)]
    /\ UNCHANGED <<pageVars, productVars>>

\* An Escape keydown reaches the document: the registered handlers run in
\* the order they were registered, each calling hideConfirmModal; the first
\* to run removes the handler the manager remembers.
escapeKey ==
    /\ modal.keydownListeners > 0
    /\ modal' = hideConfirmModal(modal)
    /\ UNCHANGED <<state, storage, view, lastOp, pageVars, productVars>>

\* A click on the background of the displayed modal.
backgroundClick ==
    /\ modal.display = "flex"
    /\ modal.clickListeners > 0
    /\ modal' = hideConfirmModal(modal)
    /\ UNCHANGED <<state, storage, view, lastOp, pageVars, productVars>>

\* resetEverything() = cartManager.reset()
resetEverything ==
    /\ Becomes(reset(World))
    /\ lastOp' = [name |-> "resetEverything", itemsBefore |-> Len(state.items)]
    /\ UNCHANGED <<modal, pageVars, productVars>>

Next ==
    \/ \E product \in Products : addToCart(product)
    \/ \E productId \in ProductIds : removeFromCart(productId)
    \/ \E productId \in ProductIds, quantity \in Quantities, outcome \in ConfirmOutcomes :
           changeQuantity(productId, quantity, outcome)
    \/ clearAllCart
    \/ closeConfirmModal
    \/ confirmClearCart
    \/ escapeKey
    \/ backgroundClick
    \/ resetEverything

Spec == Init /\ [][Next]_vars

\* ------------------------------------------------------------------------
\* The cart operations where a product record may lack its price and where
\* localStorage may refuse to write
\* ------------------------------------------------------------------------

FaultProducts == {IPhone, Unpriced}

FaultProductIds == {Str("1"), Str("3")}

FaultStores ==
    { NoEntry,
      ArrayText(<<StoredProduct(IPhone, Num(2))>>),
      SetItemThrows(NoEntry),
      SetItemThrows(ArrayText(<<StoredProduct(IPhone, Num(1))>>)) }

InitFaults ==
    /\ storage \in FaultStores
    /\ ManagerConstructed
    /\ NoPage
    /\ ProductManagerConstructed

NextFaults ==
    \/ \E product \in FaultProducts : addToCart(product)
    \/ \E productId \in FaultProductIds : removeFromCart(productId)
    \/ \E productId \in FaultProductIds, quantity \in Quantities,
          outcome \in {"true", "false"} :
           changeQuantity(productId, quantity, outcome)
    \/ confirmClearCart

SpecFaults == InitFaults /\ [][NextFaults]_vars

\* ------------------------------------------------------------------------
\* The original script (src/src/cart-before-refactored.js)
\* ------------------------------------------------------------------------

\* What the script's functions read and write: its three module-level
\* variables and the page.
OriginalWorld ==
    [cartItems |-> cartItems, cartCount |-> cartCount, cartTotal |-> cartTotal,
     page |-> page]

\* localStorage.setItem('shoppingCart', JSON.stringify(cartItems)) throws.
original_setItemThrows(o) == o.page.localStorage.k = "read-only"

\* localStorage.setItem('shoppingCart', JSON.stringify(cartItems))
original_setItem(o) == [o EXCEPT !.page.localStorage = JsonStringify(o.cartItems)]

\* updateCartCount(): cartCount is summed anew and written to #cart-count.
original_updateCartCount(o) ==
    LET count == calculateTotalCountFrom(o.cartItems, 1, Num(0))
    IN [o EXCEPT !.cartCount = count, !.page.dom.count = count]

\* calculateTotal(): cartTotal is summed anew; it is the value returned.
original_calculateTotal(o) ==
    [o EXCEPT !.cartTotal = calculateTotalPriceFrom(o.cartItems, 1, Num(0))]

\* updateCartDisplay() throws at item.price.toLocaleString().
original_updateCartDisplayThrows(o) ==
    \E i \in DOMAIN o.cartItems : formatPriceThrows(o.cartItems[i].price)

\* updateCartDisplay(): with no items the container is emptied and the
\* function returns before calculateTotal(); otherwise the items are
\* written and calculateTotal() gives the total of the panel.  When it
\* throws, the two display styles are already set and nothing else is.
original_updateCartDisplay(o) ==
    IF Len(o.cartItems) = 0
    THEN [o EXCEPT !.page.dom.items = <<>>,
                   !.page.dom.emptyDisplay = "block",
                   !.page.dom.totalDisplay = "none"]
    ELSE LET shown == [o EXCEPT !.page.dom.emptyDisplay = "none",
                                !.page.dom.totalDisplay = "block"]
             totalled == original_calculateTotal(shown)
         IN IF original_updateCartDisplayThrows(o) THEN shown
            ELSE [totalled EXCEPT
                     !.page.dom.items =
                         [i \in DOMAIN o.cartItems |-> cartItemToHtml(o.cartItems[i])],
                     !.page.dom.totalHtml = <<formatPrice(totalled.cartTotal)>>]

\* showMessage(message)
original_showMessage(o, message) == [o EXCEPT !.page.notification = message]

\* What every operation does once cartItems is changed: setItem,
\* updateCartCount(), updateCartDisplay() and, unless one of them threw,
\* showMessage(message).
original_savedAndDisplayed(o, message) ==
    IF original_setItemThrows(o) THEN o
    ELSE LET displayed == original_updateCartDisplay(original_updateCartCount(original_setItem(o)))
         IN IF original_updateCartDisplayThrows(o) THEN displayed
            ELSE original_showMessage(displayed, message)

\* The index of the first element of list whose id === id, or 0.
original_firstIndex(list, id) ==
    LET hits == {i \in DOMAIN list : StrictEq(list[i].id, id)}
    IN IF hits = {} THEN 0 ELSE CHOOSE i \in hits : \A j \in hits : i <= j

\* list.splice(i, 1)
original_splice(list, i) == SubSeq(list, 1, i - 1) \o SubSeq(list, i + 1, Len(list))

\* addToCart(product)
original_addToCart(o, product) ==
    LET i == original_firstIndex(o.cartItems, product.id)
        added == IF i # 0
                 THEN [o.cartItems EXCEPT ![i].quantity = JsAdd(@, Num(1))]
                 ELSE Append(o.cartItems, createCartItem(product, Num(1)))
    IN original_savedAndDisplayed([o EXCEPT !.cartItems = added], "added")

\* removeFromCart(productId)
original_removeFromCart(o, productId) ==
    LET i == original_firstIndex(o.cartItems, productId)
        removed == IF i # 0 THEN original_splice(o.cartItems, i) ELSE o.cartItems
    IN original_savedAndDisplayed([o EXCEPT !.cartItems = removed], "removed")

\* changeQuantity(productId, newQuantity); it shows no message.
original_changeQuantity(o, productId, newQuantity) ==
    LET i == original_firstIndex(o.cartItems, productId)
        changed == IF i = 0 THEN o.cartItems
                   ELSE IF JsLe(newQuantity, Num(0))
                        THEN original_splice(o.cartItems, i)
                        ELSE [o.cartItems EXCEPT ![i].quantity = newQuantity]
    IN original_savedAndDisplayed([o EXCEPT !.cartItems = changed], o.page.notification)

\* clearAllCart()
original_clearAllCart(o) ==
    original_savedAndDisplayed([o EXCEPT !.cartItems = <<>>], "cleared")

\* resetEverything(): localStorage.clear() instead of a save.
original_resetEverything(o) ==
    original_updateCartDisplay(original_updateCartCount(
        [o EXCEPT !.cartItems = <<>>, !.cartCount = Num(0), !.cartTotal = Num(0),
                  !.page.localStorage = NoEntry]))

\* The DOMContentLoaded listener: cartItems becomes what JSON.parse gives of
\* the stored text (an array, in the stores of this model), unless there is
\* none or it is no JSON; then updateCartCount() and updateCartDisplay().
original_DOMContentLoaded(o) ==
    LET savedCart == getItem(o.page.localStorage)
        loaded == IF savedCart.k = "none" \/ savedCart.j = "empty" THEN o
                  ELSE IF JsonParse(savedCart).threw THEN o
                       ELSE [o EXCEPT !.cartItems = JsonParse(savedCart).value.a]
    IN original_updateCartDisplay(original_updateCartCount(
           [loaded EXCEPT !.page.readyState = "interactive"]))

\* window.onload: forceUpdate().
original_onload(o) ==
    original_updateCartDisplay(original_updateCartCount(
        [o EXCEPT !.page.readyState = "complete"]))

\* The products, ids and stored snapshots of the pages.
PageProducts == {IPhone, MacBook}

PageProductIds == {Str("1"), Str("2"), Str("9")}

PageStores ==
    { NoEntry,
      ArrayText(<<StoredProduct(IPhone, Num(2))>>),
      ArrayText(<<StoredProduct(MacBook, Num(1)), StoredProduct(IPhone, Num(1))>>) }

\* The line items of the snapshot a store holds.
SnapshotItems(store) ==
    IF getItem(store).k = "none" THEN <<>> ELSE JsonParse(getItem(store)).value.a

\* cart-before-refactored.js has run in a page that is still loading, whose
\* localStorage holds what an earlier session left.
OriginalScriptLoaded ==
    /\ page \in [script : {"cart-before-refactored.js"}, readyState : {"loading"},
                  localStorage : PageStores, dom : {PageMarkup},
                  notification : {"none"}]
    /\ cartItems = <<>>
    /\ cartCount = Num(0)
    /\ cartTotal = Num(0)
    /\ cart = <<>>
    /\ cartService = "undefined"
    /\ session = [persisted |-> SnapshotItems(page.localStorage), removed |-> {}]

\* The step that takes the original script's world to o.
OriginalBecomes(o) ==
    /\ cartItems' = o.cartItems
    /\ cartCount' = o.cartCount
    /\ cartTotal' = o.cartTotal
    /\ page' = o.page

\* The history once the calls of the step have removed ids.
Removing(ids) == session' = [session EXCEPT !.removed = @ \cup ids]

\* The line item the add would touch is below the largest quantity.
OriginalBelowMaxQty(product) ==
    LET i == original_firstIndex(cartItems, product.id)
    IN i # 0 => JsLt(cartItems[i].quantity, Num(MaxQty))

originalDOMContentLoaded ==
    /\ page.script = "cart-before-refactored.js"
    /\ page.readyState = "loading"
    /\ OriginalBecomes(original_DOMContentLoaded(OriginalWorld))
    /\ lastOp' = [name |-> "DOMContentLoaded", itemsBefore |-> Len(cartItems)]
    /\ UNCHANGED <<functionalVars, cart, cartService, session, productVars>>

originalOnload ==
    /\ page.script = "cart-before-refactored.js"
    /\ page.readyState = "interactive"
    /\ OriginalBecomes(original_onload(OriginalWorld))
    /\ lastOp' = [name |-> "onload", itemsBefore |-> Len(cartItems)]
    /\ UNCHANGED <<functionalVars, cart, cartService, session, productVars>>

originalAddToCart(product) ==
    /\ page.script = "cart-before-refactored.js"
    /\ OriginalBelowMaxQty(product)
    /\ OriginalBecomes(original_addToCart(OriginalWorld, product))
    /\ lastOp' = [name |-> "addToCart", itemsBefore |-> Len(cartItems)]
    /\ UNCHANGED <<functionalVars, cart, cartService, session, productVars>>

originalRemoveFromCart(productId) ==
    /\ page.script = "cart-before-refactored.js"
    /\ OriginalBecomes(original_removeFromCart(OriginalWorld, productId))
    /\ lastOp' = [name |-> "removeFromCart", itemsBefore |-> Len(cartItems)]
    /\ Removing({productId})
    /\ UNCHANGED <<functionalVars, cart, cartService, productVars>>

originalChangeQuantity(productId, newQuantity) ==
    /\ page.script = "cart-before-refactored.js"
    /\ OriginalBecomes(original_changeQuantity(OriginalWorld, productId, newQuantity))
    /\ lastOp' = [name |-> "changeQuantity", itemsBefore |-> Len(cartItems)]
    /\ Removing(IF JsLe(newQuantity, Num(0)) THEN {productId} ELSE {})
    /\ UNCHANGED <<functionalVars, cart, cartService, productVars>>

originalClearAllCart ==
    /\ page.script = "cart-before-refactored.js"
    /\ OriginalBecomes(original_clearAllCart(OriginalWorld))
    /\ lastOp' = [name |-> "clearAllCart", itemsBefore |-> Len(cartItems)]
    /\ Removing(PageProductIds)
    /\ UNCHANGED <<functionalVars, cart, cartService, productVars>>

originalResetEverything ==
    /\ page.script = "cart-before-refactored.js"
    /\ OriginalBecomes(original_resetEverything(OriginalWorld))
    /\ lastOp' = [name |-> "resetEverything", itemsBefore |-> Len(cartItems)]
    /\ Removing(PageProductIds)
    /\ UNCHANGED <<functionalVars, cart, cartService, productVars>>

NextOriginal ==
    \/ originalDOMContentLoaded
    \/ originalOnload
    \/ \E product \in PageProducts : originalAddToCart(product)
    \/ \E productId \in PageProductIds : originalRemoveFromCart(productId)
    \/ \E productId \in PageProductIds, newQuantity \in Quantities :
           originalChangeQuantity(productId, newQuantity)
    \/ originalClearAllCart
    \/ originalResetEverything

\* ------------------------------------------------------------------------
\* The SOLID script (src/unnamed/part_003)
\* ------------------------------------------------------------------------

\* What the script's classes and global functions read and write.
SolidWorld ==
    [cart |-> cart, cartService |-> cartService, page |-> page,
     cartItems |-> cartItems, cartCount |-> cartCount, cartTotal |-> cartTotal]

\* Product.isValid(): this.id && this.name && this.price > 0 && this.image
Product_isValid(product) ==
    /\ Truthy(product.id)
    /\ Truthy(product.name)
    /\ JsGt(product.price, Num(0))
    /\ Truthy(product.image)

\* new CartItem(product, quantity)
CartItem(product, quantity) ==
    [t |-> "object", id |-> product.id, name |-> product.name,
     price |-> product.price, image |-> product.image, quantity |-> quantity]

\* The position of the key id in the Map items, or 0: this.items.has(id).
Cart_position(items, id) ==
    LET hits == {i \in DOMAIN items : StrictEq(items[i].id, id)}
    IN IF hits = {} THEN 0 ELSE CHOOSE i \in hits : TRUE

\* Cart.addProduct(product) of a valid product: increaseQuantity(1) of the
\* item of its id, or a new CartItem at the end of the Map.
Cart_addProduct(items, product) ==
    LET i == Cart_position(items, product.id)
    IN IF i # 0
       THEN [items EXCEPT ![i].quantity = JsAdd(@, Num(1))]
       ELSE Append(items, CartItem(product, Num(1)))

\* Cart.removeProduct(productId): this.items.delete(productId)
Cart_removeProduct(items, productId) ==
    LET Keep(item) == ~StrictEq(item.id, productId)
    IN SelectSeq(items, Keep)

\* Cart.updateQuantity(productId, quantity): the items afterwards, and
\* whether it returns true.
Cart_updateQuantity(items, productId, quantity) ==
    LET i == Cart_position(items, productId)
    IN IF JsLe(quantity, Num(0))
       THEN [items |-> Cart_removeProduct(items, productId), updated |-> i # 0]
       ELSE IF i # 0
            THEN [items |-> [items EXCEPT ![i].quantity = quantity], updated |-> TRUE]
            ELSE [items |-> items, updated |-> FALSE]

\* Cart.getTotalQuantity()
Cart_getTotalQuantity(items) == calculateTotalCountFrom(items, 1, Num(0))

\* Cart.getTotalPrice()
Cart_getTotalPrice(items) == calculateTotalPriceFrom(items, 1, Num(0))

\* Cart.fromJSON(jsonArray): each element is set under its id, a later
\* element of an id taking the place of the earlier one.
RECURSIVE Cart_fromJSONFrom(_, _, _)
Cart_fromJSONFrom(jsonArray, i, items) ==
    IF i > Len(jsonArray) THEN items
    ELSE LET cartItem == CartItem(jsonArray[i], jsonArray[i].quantity)
             k == Cart_position(items, cartItem.id)
         IN Cart_fromJSONFrom(jsonArray, i + 1,
                IF k # 0 THEN [items EXCEPT ![k] = cartItem]
                ELSE Append(items, cartItem))

Cart_fromJSON(jsonArray) == Cart_fromJSONFrom(jsonArray, 1, <<>>)

\* LocalStorageService.save throws 'Storage save failed'.
LocalStorageService_saveThrows(store) == store.k = "read-only"

\* LocalStorageService.saveCart(cart): the store afterwards.
LocalStorageService_saveCart(store, items) == JsonStringify(items)

\* LocalStorageService.loadCart(): Cart.fromJSON of the array stored, and a
\* new Cart when nothing, the empty text or a text that is no JSON is.
LocalStorageService_loadCart(store) ==
    LET data == getItem(store)
    IN IF data.k = "none" \/ data.j = "empty" THEN <<>>
       ELSE IF JsonParse(data).threw THEN <<>>
            ELSE Cart_fromJSON(JsonParse(data).value.a)

\* DOMService.updateCartCount(count)
DOMService_updateCartCount(dom, count) == [dom EXCEPT !.count = count]

\* generateCartItemHTML(item) throws at item.price.toLocaleString().
DOMService_updateCartDisplayThrows(items) ==
    \E i \in DOMAIN items : formatPriceThrows(items[i].price)

\* DOMService.updateCartDisplay(cart); when it throws, the two display
\* styles are already set and nothing else is.
DOMService_updateCartDisplay(dom, items) ==
    IF Len(items) = 0
    THEN [dom EXCEPT !.emptyDisplay = "block", !.items = <<>>, !.totalDisplay = "none"]
    ELSE LET shown == [dom EXCEPT !.emptyDisplay = "none", !.totalDisplay = "block"]
         IN IF DOMService_updateCartDisplayThrows(items) THEN shown
            ELSE [shown EXCEPT
                     !.items = [i \in DOMAIN items |-> cartItemToHtml(items[i])],
                     !.totalHtml = <<formatPrice(Cart_getTotalPrice(items))>>]

\* CartService.updateDisplay()
CartService_updateDisplay(s) ==
    [s EXCEPT !.page.dom =
        DOMService_updateCartDisplay(
            DOMService_updateCartCount(s.page.dom, Cart_getTotalQuantity(s.cart)),
            s.cart)]

\* CartService.saveAndUpdate() throws: saveCart or updateDisplay does.
CartService_saveAndUpdateThrows(s) ==
    \/ LocalStorageService_saveThrows(s.page.localStorage)
    \/ DOMService_updateCartDisplayThrows(s.cart)

\* CartService.saveAndUpdate(): saveCart, then updateDisplay; an exception
\* of saveCart leaves before the display is touched.
CartService_saveAndUpdate(s) ==
    IF LocalStorageService_saveThrows(s.page.localStorage) THEN s
    ELSE CartService_updateDisplay(
             [s EXCEPT !.page.localStorage =
                 LocalStorageService_saveCart(s.page.localStorage, s.cart)])

\* NotificationService.show(message)
NotificationService_show(s, message) == [s EXCEPT !.page.notification = message]

\* CartService.addToCart(productData): "add failed" stands for the
\* notification of the catch block.
CartService_addToCart(s, productData) ==
    IF ~Product_isValid(productData)
    THEN NotificationService_show(s, "add failed")
    ELSE LET added == [s EXCEPT !.cart = Cart_addProduct(s.cart, productData)]
         IN IF CartService_saveAndUpdateThrows(added)
            THEN NotificationService_show(CartService_saveAndUpdate(added), "add failed")
            ELSE NotificationService_show(CartService_saveAndUpdate(added), "added")

\* CartService.removeFromCart(productId); its catch block only logs.
CartService_removeFromCart(s, productId) ==
    LET removed == [s EXCEPT !.cart = Cart_removeProduct(s.cart, productId)]
    IN IF Cart_position(s.cart, productId) = 0 THEN s
       ELSE IF CartService_saveAndUpdateThrows(removed)
            THEN CartService_saveAndUpdate(removed)
            ELSE NotificationService_show(CartService_saveAndUpdate(removed), "removed")

\* CartService.changeQuantity(productId, newQuantity)
CartService_changeQuantity(s, productId, newQuantity) ==
    LET result == Cart_updateQuantity(s.cart, productId, newQuantity)
    IN IF result.updated
       THEN CartService_saveAndUpdate([s EXCEPT !.cart = result.items])
       ELSE s

\* CartService.clearAllCart()
CartService_clearAllCart(s) ==
    LET cleared == [s EXCEPT !.cart = <<>>]
    IN IF CartService_saveAndUpdateThrows(cleared)
       THEN CartService_saveAndUpdate(cleared)
       ELSE NotificationService_show(CartService_saveAndUpdate(cleared), "cleared")

\* CartService.reset(); LocalStorageService.clear() swallows an exception.
CartService_reset(s) ==
    CartService_updateDisplay(
        [s EXCEPT !.cart = <<>>,
                  !.page.localStorage =
                      IF @.k = "read-only" THEN @ ELSE NoEntry])

\* CartService.initialize(): the cart is what loadCart() gives, displayed;
\* when the display throws the catch block puts a new Cart in its place.
CartService_initialize(s) ==
    LET loaded == [s EXCEPT !.cart = LocalStorageService_loadCart(s.page.localStorage)]
    IN IF DOMService_updateCartDisplayThrows(loaded.cart)
       THEN [CartService_updateDisplay(loaded) EXCEPT !.cart = <<>>]
       ELSE CartService_updateDisplay(loaded)

\* initializeApp(): a new ShoppingCartApp, its cartService, and start().
initializeApp(s) ==
    CartService_initialize([s EXCEPT !.cart = <<>>, !.cartService = "started"])

\* syncGlobalVariables()
syncGlobalVariables(s) ==
    [s EXCEPT !.cartItems = s.cart,
              !.cartCount = Cart_getTotalQuantity(s.cart),
              !.cartTotal = Cart_getTotalPrice(s.cart)]

\* The products the SOLID page adds, a malformed one among them, and its
\* stores, two of which refuse to write.
SolidProducts == {IPhone, MacBook, Malformed}

SolidStores ==
    PageStores \cup
        { SetItemThrows(NoEntry),
          SetItemThrows(ArrayText(<<StoredProduct(IPhone, Num(1))>>)) }

\* The script has run.  In a page that was still loading it registered
\* initializeApp for DOMContentLoaded and, cartService being undefined,
\* made a ShoppingCartApp and took its cartService without starting it; in
\* a page that was loaded it ran initializeApp() at once.
SolidScriptLoaded ==
    /\ \E store \in SolidStores, readyState \in {"loading", "interactive"} :
           LET s == [cart |-> <<>>, cartService |-> "not started",
                     page |-> [script |-> "SOLID", readyState |-> readyState,
                               localStorage |-> store, dom |-> PageMarkup,
                               notification |-> "none"],
                     cartItems |-> <<>>, cartCount |-> Num(0), cartTotal |-> Num(0)]
               started == IF readyState = "loading" THEN s ELSE initializeApp(s)
           IN /\ page = started.page
              /\ cart = started.cart
              /\ cartService = started.cartService
    /\ cartItems = <<>>
    /\ cartCount = Num(0)
    /\ cartTotal = Num(0)
    /\ session = [persisted |-> SnapshotItems(page.localStorage), removed |-> {}]

\* The step that takes the SOLID script's world to s.
SolidBecomes(s) ==
    /\ cart' = s.cart
    /\ cartService' = s.cartService
    /\ page' = s.page
    /\ cartItems' = s.cartItems
    /\ cartCount' = s.cartCount
    /\ cartTotal' = s.cartTotal

\* The item the add would touch is below the largest quantity.
SolidBelowMaxQty(product) ==
    LET i == Cart_position(cart, product.id)
    IN i # 0 => JsLt(cart[i].quantity, Num(MaxQty))

\* DOMContentLoaded reaches the listener the script registered.
solidDOMContentLoaded ==
    /\ page.script = "SOLID"
    /\ page.readyState = "loading"
    /\ SolidBecomes(initializeApp([SolidWorld EXCEPT !.page.readyState = "interactive"]))
    /\ lastOp' = [name |-> "DOMContentLoaded", itemsBefore |-> Len(cart)]
    /\ UNCHANGED <<functionalVars, session, productVars>>

\* window.onload: forceUpdate() = cartService.updateDisplay()
solidOnload ==
    /\ page.script = "SOLID"
    /\ page.readyState = "interactive"
    /\ SolidBecomes(CartService_updateDisplay([SolidWorld EXCEPT !.page.readyState = "complete"]))
    /\ lastOp' = [name |-> "onload", itemsBefore |-> Len(cart)]
    /\ UNCHANGED <<functionalVars, session, productVars>>

\* The global addToCart(product): cartService.addToCart and
\* syncGlobalVariables(), if (cartService).
solidAddToCart(product) ==
    /\ page.script = "SOLID"
    /\ SolidBelowMaxQty(product)
    /\ SolidBecomes(syncGlobalVariables(CartService_addToCart(SolidWorld, product)))
    /\ lastOp' = [name |-> "addToCart", itemsBefore |-> Len(cart)]
    /\ UNCHANGED <<functionalVars, session, productVars>>

solidRemoveFromCart(productId) ==
    /\ page.script = "SOLID"
    /\ SolidBecomes(syncGlobalVariables(CartService_removeFromCart(SolidWorld, productId)))
    /\ lastOp' = [name |-> "removeFromCart", itemsBefore |-> Len(cart)]
    /\ Removing({productId})
    /\ UNCHANGED <<functionalVars, productVars>>

solidChangeQuantity(productId, newQuantity) ==
    /\ page.script = "SOLID"
    /\ SolidBecomes(syncGlobalVariables(
           CartService_changeQuantity(SolidWorld, productId, newQuantity)))
    /\ lastOp' = [name |-> "changeQuantity", itemsBefore |-> Len(cart)]
    /\ Removing(IF JsLe(newQuantity, Num(0)) THEN {productId} ELSE {})
    /\ UNCHANGED <<functionalVars, productVars>>

solidClearAllCart ==
    /\ page.script = "SOLID"
    /\ SolidBecomes(syncGlobalVariables(CartService_clearAllCart(SolidWorld)))
    /\ lastOp' = [name |-> "clearAllCart", itemsBefore |-> Len(cart)]
    /\ Removing(PageProductIds)
    /\ UNCHANGED <<functionalVars, productVars>>

solidResetEverything ==
    /\ page.script = "SOLID"
    /\ SolidBecomes(syncGlobalVariables(CartService_reset(SolidWorld)))
    /\ lastOp' = [name |-> "resetEverything", itemsBefore |-> Len(cart)]
    /\ Removing(PageProductIds)
    /\ UNCHANGED <<functionalVars, productVars>>

NextSolid ==
    \/ solidDOMContentLoaded
    \/ solidOnload
    \/ \E product \in SolidProducts : solidAddToCart(product)
    \/ \E productId \in PageProductIds : solidRemoveFromCart(productId)
    \/ \E productId \in PageProductIds, newQuantity \in Quantities :
           solidChangeQuantity(productId, newQuantity)
    \/ solidClearAllCart
    \/ solidResetEverything

\* ------------------------------------------------------------------------
\* A page that loads the original script or the SOLID script
\* ------------------------------------------------------------------------

InitPage ==
    /\ OriginalScriptLoaded \/ SolidScriptLoaded
    /\ storage = NoEntry
    /\ ManagerConstructed
    /\ ProductManagerConstructed

NextPage == NextOriginal \/ NextSolid

SpecPage == InitPage /\ [][NextPage]_vars

\* ------------------------------------------------------------------------
\* The functional script and the original script given the same calls
\* ------------------------------------------------------------------------

\* Both scripts have loaded, each in its page, with nothing in localStorage.
InitBoth ==
    /\ storage = NoEntry
    /\ ManagerConstructed
    /\ page = [script |-> "cart-before-refactored.js", readyState |-> "complete",
               localStorage |-> NoEntry, dom |-> PageMarkup, notification |-> "none"]
    /\ cartItems = <<>>
    /\ cartCount = Num(0)
    /\ cartTotal = Num(0)
    /\ cart = <<>>
    /\ cartService = "undefined"
    /\ session = [persisted |-> <<>>, removed |-> {}]
    /\ ProductManagerConstructed

\* addToCart(product) in both pages
bothAddToCart(product) ==
    /\ BelowMaxQty(product)
    /\ OriginalBelowMaxQty(product)
    /\ Becomes(addItem(World, product))
    /\ OriginalBecomes(original_addToCart(OriginalWorld, product))
    /\ lastOp' = [name |-> "addToCart", itemsBefore |-> Len(state.items)]
    /\ UNCHANGED <<modal, cart, cartService, session, productVars>>

\* removeFromCart(productId) in both pages
bothRemoveFromCart(productId) ==
    /\ Becomes(removeItem(World, productId))
    /\ OriginalBecomes(original_removeFromCart(OriginalWorld, productId))
    /\ lastOp' = [name |-> "removeFromCart", itemsBefore |-> Len(state.items)]
    /\ UNCHANGED <<modal, cart, cartService, session, productVars>>

\* changeQuantity(productId, quantity) in both pages; window.confirm is
\* asked in the functional script's page only.
bothChangeQuantity(productId, quantity, outcome) ==
    /\ AsksConfirmation(state.items, productId, quantity) \/ outcome = "true"
    /\ Becomes(changeQuantityReturn(World, productId, quantity, outcome))
    /\ OriginalBecomes(original_changeQuantity(OriginalWorld, productId, quantity))
    /\ lastOp' = [name |-> "changeQuantity", itemsBefore |-> Len(state.items)]
    /\ UNCHANGED <<modal, cart, cartService, session, productVars>>

\* clearAllCart() in both pages
bothClearAllCart ==
    /\ modal.keydownListeners < MaxListeners
    /\ modal' = showConfirmModal(modal)
    /\ OriginalBecomes(original_clearAllCart(OriginalWorld))
    /\ lastOp' = [name |-> "clearAllCart", itemsBefore |-> Len(state.items)]
    /\ UNCHANGED <<state, storage, view, cart, cartService, session, productVars>>

NextBoth ==
    \/ \E product \in PageProducts : bothAddToCart(product)
    \/ \E productId \in PageProductIds : bothRemoveFromCart(productId)
    \/ \E productId \in PageProductIds, quantity \in Quantities,
          outcome \in ConfirmOutcomes :
           bothChangeQuantity(productId, quantity, outcome)
    \/ bothClearAllCart

SpecBoth == InitBoth /\ [][NextBoth]_vars

\* ------------------------------------------------------------------------
\* The product list (product.js, in src/unnamed/part_003)
\* ------------------------------------------------------------------------

\* renderProductsList(products): the HTML of the array is written.
renderProductsList(pm, products) == [pm EXCEPT !.container = products]

\* showLoadingState()
showLoadingState(pm) == [pm EXCEPT !.container = "loading"]

\* ProductManager.loadProducts() up to its await: isLoading = true and
\* fetchProducts() is called.
ProductManager_loadProducts_called(pm) == [pm EXCEPT !.isLoading = TRUE]

\* ProductManager.loadProducts() from its await on, fetchProducts() having
\* resolved with a copy of PRODUCTS: the products are kept and rendered, and
\* the finally block sets isLoading = false.
ProductManager_loadProducts_resumed(pm) ==
    [renderProductsList([pm EXCEPT !.products = "PRODUCTS"], "PRODUCTS")
        EXCEPT !.isLoading = FALSE]

\* loadAndRenderProducts() from its await on.
loadAndRenderProducts_resumed(pm) == renderProductsList(pm, "PRODUCTS")

\* ProductManager.getIsLoading()
ProductManager_getIsLoading(pm) == pm.isLoading

\* loadProducts() = productManager.loadProducts()
loadProducts ==
    /\ Len(fetches) < MaxLoads
    /\ productManager' = ProductManager_loadProducts_called(productManager)
    /\ fetches' = Append(fetches, "loadProducts")
    /\ UNCHANGED <<functionalVars, lastOp, pageVars>>

\* initializeProducts() = productManager.initialize(), which awaits
\* this.loadProducts().
initializeProducts ==
    /\ Len(fetches) < MaxLoads
    /\ productManager' = ProductManager_loadProducts_called(productManager)
    /\ fetches' = Append(fetches, "initialize")
    /\ UNCHANGED <<functionalVars, lastOp, pageVars>>

\* loadAndRenderProducts(): the loading notice, then fetchProducts().
loadAndRenderProducts ==
    /\ Len(fetches) < MaxLoads
    /\ productManager' = showLoadingState(productManager)
    /\ fetches' = Append(fetches, "loadAndRenderProducts")
    /\ UNCHANGED <<functionalVars, lastOp, pageVars>>

\* renderProducts() = productManager.render()
renderProducts ==
    /\ productManager' = renderProductsList(productManager, productManager.products)
    /\ UNCHANGED <<functionalVars, lastOp, pageVars, fetches>>

\* The 300 ms timer of the oldest fetchProducts() fires (timers of one
\* delay fire in the order they were set): the promise resolves and the
\* call awaiting it runs to its end.
fetchProductsResolves ==
    /\ fetches # <<>>
    /\ productManager' =
           IF Head(fetches) = "loadAndRenderProducts"
           THEN loadAndRenderProducts_resumed(productManager)
           ELSE ProductManager_loadProducts_resumed(productManager)
    /\ fetches' = Tail(fetches)
    /\ UNCHANGED <<functionalVars, lastOp, pageVars>>

InitProducts ==
    /\ storage = NoEntry
    /\ ManagerConstructed
    /\ NoPage
    /\ ProductManagerConstructed

NextProducts ==
    \/ loadProducts
    \/ initializeProducts
    \/ loadAndRenderProducts
    \/ renderProducts
    \/ fetchProductsResolves

SpecProducts == InitProducts /\ [][NextProducts]_vars

\* ------------------------------------------------------------------------
\* Properties of the cart engine
\* ------------------------------------------------------------------------

IdsOf(items) == [i \in DOMAIN items |-> items[i].id]

HasId(items, id) == \E i \in DOMAIN items : StrictEq(items[i].id, id)

\* The ids that are in the cart before and after keep their order.
OrderKept(before, after) ==
    LET InBoth(id) == HasId(before, id) /\ HasId(after, id)
    IN SelectSeq(IdsOf(before), InBoth) = SelectSeq(IdsOf(after), InBoth)

\* The spec's well-formed product: id and name are non-empty strings, price
\* is a positive number and image is a string.
IsWellFormedProduct(product) ==
    /\ TypeOf(product.id) = "string" /\ product.id.s # ""
    /\ TypeOf(product.name) = "string" /\ product.name.s # ""
    /\ TypeOf(product.price) = "number" /\ JsGt(product.price, Num(0))
    /\ TypeOf(product.image) = "string"

PositiveQuantities == {q \in Quantities : JsGt(q, Num(0))}

NonPositiveQuantities == {q \in Quantities : JsLe(q, Num(0))}

\* C1: no reachable cart state holds two line items with the same id.
C1_UniqueIds ==
    \A i, j \in DOMAIN state.items :
        i # j => ~StrictEq(state.items[i].id, state.items[j].id)

\* C2: every line item of every reachable cart state has quantity >= 1.
C2_QuantityAtLeastOne ==
    \A i \in DOMAIN state.items : JsGe(state.items[i].quantity, Num(1))

\* C3: adding a product, setting a quantity > 0 and removing an id keep the
\* relative order of the line items that stay, and a product that is not in
\* the cart is appended after all existing line items.
C3_InsertionOrderPreserved ==
    /\ \A product \in Products :
           LET after == addItemToCart(state, product).items
           IN /\ OrderKept(state.items, after)
              /\ ~HasId(state.items, product.id)
                     => /\ Len(after) = Len(state.items) + 1
                        /\ SubSeq(after, 1, Len(state.items)) = state.items
                        /\ StrictEq(after[Len(after)].id, product.id)
    /\ \A productId \in ProductIds, quantity \in PositiveQuantities :
           IdsOf(updateItemQuantity(state, productId, quantity).items) = IdsOf(state.items)
    /\ \A productId \in ProductIds :
           OrderKept(state.items, removeItemFromCart(state, productId).items)

\* A cart of two line items whose second was just appended by addToCart.
C3_Witness ==
    /\ lastOp.name = "addToCart"
    /\ lastOp.itemsBefore = 1
    /\ Len(state.items) = 2

\* C4: totalCount(addItemToCart(s, p)) = totalCount(s) + 1 for every cart
\* state s and product p.
C4_AddIncrementsCount ==
    \A product \in Products :
        calculateTotalCount(addItemToCart(state, product).items)
            = JsAdd(calculateTotalCount(state.items), Num(1))

\* C5: adding a product whose id is in the cart changes the quantity of one
\* line item by +1 and nothing else; adding a product whose id is not in the
\* cart appends one line item of quantity 1 with the product's price, name
\* and image and changes no existing line item.
C5_AddFrame ==
    \A product \in Products :
        LET before == state.items
            after == addItemToCart(state, product).items
        IN IF HasId(before, product.id)
           THEN \E k \in DOMAIN before :
                    /\ StrictEq(before[k].id, product.id)
                    /\ after = [before EXCEPT
                                   ![k].quantity = JsAdd(before[k].quantity, Num(1))]
           ELSE after = Append(before,
                               [t |-> "object", id |-> product.id, name |-> product.name,
                                price |-> product.price, image |-> product.image,
                                quantity |-> Num(1)])

\* C6: a malformed product passed to the add operation is rejected: the
\* cart it is added to is left as it was.
C6_MalformedRejected ==
    \A product \in Products :
        ~IsWellFormedProduct(product)
            => addItem(World, product).state.items = state.items

\* C7: removing an id that is not in the cart gives the same line items in
\* the same order, with the total count and the subtotal unchanged; removing
\* an id that is in the cart leaves no line item of that id and every other
\* line item as it was, in order.
C7_RemoveFrame ==
    \A productId \in ProductIds :
        LET before == state.items
            after == removeItemFromCart(state, productId).items
            Gone(i) == Cardinality({j \in 1 .. i : StrictEq(before[j].id, productId)})
        IN /\ ~HasId(before, productId)
                  => /\ after = before
                     /\ calculateTotalCount(after) = calculateTotalCount(before)
                     /\ calculateTotalPrice(after) = calculateTotalPrice(before)
           /\ ~HasId(after, productId)
           /\ Len(after) = Len(before) - Gone(Len(before))
           /\ \A i \in DOMAIN before :
                  ~StrictEq(before[i].id, productId) => after[i - Gone(i)] = before[i]

\* removeFromCart of an id the cart does not hold has left a cart with line
\* items as it was.
C7_Witness ==
    /\ lastOp.name = "removeFromCart"
    /\ lastOp.itemsBefore = Len(state.items)
    /\ Len(state.items) > 0

\* C8: removing an id twice gives the line items that removing it once gives.
C8_RemoveIdempotent ==
    \A productId \in ProductIds :
        removeItemFromCart(removeItemFromCart(state, productId), productId).items
            = removeItemFromCart(state, productId).items

\* removeFromCart has removed a line item and left others, whose ids can
\* be removed again.
C8_Witness ==
    /\ lastOp.name = "removeFromCart"
    /\ Len(state.items) < lastOp.itemsBefore
    /\ Len(state.items) > 0

\* C9: updateItemQuantity(s, id, q) with q <= 0 is removeItemFromCart(s, id),
\* for an id that is in the cart and for one that is not.
C9_NonPositiveQuantityRemoves ==
    \A productId \in ProductIds, quantity \in NonPositiveQuantities :
        updateItemQuantity(state, productId, quantity) = removeItemFromCart(state, productId)

\* changeQuantity has removed a line item from a cart of several.
C9_Witness ==
    /\ lastOp.name = "changeQuantity"
    /\ Len(state.items) < lastOp.itemsBefore
    /\ Len(state.items) > 0

\* C10 as claimed: changeQuantity(id, q) with q <= 0 and id in the cart
\* leaves no line item of that id in the cart.
C10_ChangeQuantityRemoves ==
    \A productId \in ProductIds, quantity \in NonPositiveQuantities,
       outcome \in ConfirmOutcomes :
        HasId(state.items, productId)
            => ~HasId(changeQuantityReturn(World, productId, quantity, outcome).state.items,
                      productId)

\* C10 as amended: changeQuantity(id, q) with q <= 0 and id in the cart
\* leaves no line item of that id in the cart, unless the first line item
\* whose id == the given id has a quantity <= 1 and window.confirm returns
\* false or null: then the cart, the stored text and the view are left as
\* they were.
C10_ChangeQuantityRemovesUnlessDeclined ==
    \A productId \in ProductIds, quantity \in NonPositiveQuantities,
       outcome \in ConfirmOutcomes :
        HasId(state.items, productId)
            => LET matches == {i \in DOMAIN state.items :
                                  LooseEq(state.items[i].id, productId)}
                   first == CHOOSE i \in matches : \A j \in matches : i <= j
                   after == changeQuantityReturn(World, productId, quantity, outcome)
               IN IF /\ JsLe(state.items[first].quantity, Num(1))
                     /\ outcome \in {"false", "null"}
                  THEN after = World
                  ELSE ~HasId(after.state.items, productId)

\* changeQuantity has emptied a cart that held one line item: the count
\* shown is 0 and the empty-cart notice is displayed.
C10_Witness ==
    /\ lastOp.name = "changeQuantity"
    /\ lastOp.itemsBefore = 1
    /\ state.items = <<>>
    /\ view.count = Num(0)
    /\ view.emptyDisplay = "block"

\* C11: updateItemQuantity(s, id, q) with q > 0 changes the quantity of the
\* line item of that id to q and leaves its position, price, name and image
\* and every other line item as they were; when no line item has the id the
\* line items are those of s.
C11_UpdateQuantityFrame ==
    \A productId \in ProductIds, quantity \in PositiveQuantities :
        LET before == state.items
            after == updateItemQuantity(state, productId, quantity).items
        IN IF HasId(before, productId)
           THEN \E k \in DOMAIN before :
                    /\ StrictEq(before[k].id, productId)
                    /\ after = [before EXCEPT ![k].quantity = quantity]
           ELSE after = before

\* C12: for every cart state s, clearCart(s) has no line items, a subtotal
\* of 0 and a total count of 0.
C12_ClearGivesEmptyCart ==
    LET cleared == clearCart(state)
    IN /\ cleared.items = <<>>
       /\ calculateTotalPrice(cleared.items) = Num(0)
       /\ calculateTotalCount(cleared.items) = Num(0)

\* confirmClearCart has cleared a cart of two line items.
C12_Witness ==
    /\ lastOp.name = "confirmClearCart"
    /\ lastOp.itemsBefore = 2
    /\ state.items = <<>>
    /\ view.count = Num(0)

\* C13: when clearAllCart() returns the cart has no line items: the count
\* shown is 0, the empty-cart notice is shown and the total panel is hidden,
\* whatever the cart held before.
C13_ClearAllCartEmpties ==
    [][clearAllCart => /\ state'.items = <<>>
                       /\ view'.count = Num(0)
                       /\ view'.emptyDisplay = "block"
                       /\ view'.totalDisplay = "none"]_vars

\* C14: the shipping fee is 0 exactly when the subtotal is >= 5000 and 100
\* otherwise; a subtotal of exactly 5000 gives 0 and one of 4999 gives 100.
C14_ShippingFeeBoundary ==
    /\ calculateShippingFee(Num(5000)) = Num(0)
    /\ calculateShippingFee(Num(4999)) = Num(100)
    /\ LET subtotal == calculateTotalPrice(state.items)
           fee == calculateShippingFee(subtotal)
       IN /\ fee \in {Num(0), Num(100)}
          /\ fee = Num(0) <=> (~IsNaN(subtotal) /\ subtotal.n >= 2 * 5000)

\* addToCart has brought the subtotal to exactly 5000, and the cart is shown
\* with a shipping fee of 0.
C14_Witness ==
    /\ lastOp.name = "addToCart"
    /\ calculateTotalPrice(state.items) = Num(5000)
    /\ view.totalDisplay = "block"
    /\ view.totalHtml[2] = formatPrice(Num(0))

\* C15: after any sequence of add, remove and change-quantity operations the
\* grand total computed is the subtotal of the current line items plus the
\* shipping fee of that subtotal, and the subtotal, fee and grand total the
\* total panel shows are those of the current line items.
C15_TotalsOfCurrentItems ==
    LET subtotal == calculateTotalPrice(state.items)
        fee == calculateShippingFee(subtotal)
        derivedData == calculateCartDerivedData(state)
    IN /\ derivedData.totalPrice = subtotal
       /\ derivedData.shippingFee = fee
       /\ derivedData.finalTotal = JsAdd(subtotal, fee)
       /\ view.totalDisplay = "block"
              => view.totalHtml = <<formatPrice(subtotal), formatPrice(fee),
                                    formatPrice(JsAdd(subtotal, fee))>>

\* The spec's valid line item: id and name are non-empty strings, price is
\* a number and quantity is an integer > 0.
IsValidLineItem(item) ==
    /\ item.t = "object"
    /\ item.id.t = "string" /\ item.id.s # ""
    /\ item.name.t = "string" /\ item.name.s # ""
    /\ item.price.t = "number"
    /\ item.quantity.t = "number" /\ ~IsNaN(item.quantity)
    /\ item.quantity.n > 0 /\ item.quantity.n % 2 = 0

\* The line items JSON.parse gives for a stored array.
ParsedItems(store) == [i \in DOMAIN store.a |-> ParseElement(store.a[i])]

\* C16: isValidCartState(state) is true if and only if every line item has
\* a non-empty string id, a non-empty string name, a number price and an
\* integer quantity > 0; checked on the cart and on every stored array.
C16_ValidIffWellFormedItems ==
    /\ isValidCartState([items |-> ArrayOf(state.items)])
           <=> \A i \in DOMAIN state.items : IsValidLineItem(state.items[i])
    /\ \A store \in {t \in InitialStores : t.k = "text" /\ t.j = "array"} :
           isValidCartState([items |-> ArrayOf(ParsedItems(store))])
               <=> \A i \in DOMAIN store.a : IsValidLineItem(ParsedItems(store)[i])

\* A stored record that passes the line-item validity check: an object
\* with a string id, a string name, a number price and a number quantity > 0.
PassesValidityCheck(e) ==
    /\ e.j = "object"
    /\ {"id", "name", "price", "quantity"} \subseteq DOMAIN e.o
    /\ e.o["id"].t = "string"
    /\ e.o["name"].t = "string"
    /\ e.o["price"].t = "number"
    /\ e.o["quantity"].t = "number" /\ e.o["quantity"].n > 0

\* C17: loadCartFromStorage gives the empty cart when nothing is stored
\* under the key or the stored text is empty, unparsable, no array or an
\* array with a record that fails the validity check, and gives exactly the
\* stored line items when the text is an array of valid ones.
C17_HydrationNeverFails ==
    \A store \in InitialStores \cup {storage} :
        LET item == getItem(store)
            loaded == loadCartFromStorage(store)
        IN IF /\ item.k = "text"
              /\ item.j = "array"
              /\ \A i \in DOMAIN item.a : PassesValidityCheck(item.a[i])
           THEN loaded.items = ParsedItems(item)
           ELSE loaded = createEmptyCart

\* The manager was constructed over a text JSON.parse rejects and shows an
\* empty cart.
C17_Witness ==
    /\ lastOp.name = "new CartManager"
    /\ storage = InvalidText
    /\ state = createEmptyCart
    /\ view.emptyDisplay = "block"

\* The worlds the mutating operations of the manager lead to from here.
MutatedWorlds ==
    {addItem(World, product) : product \in Products \cup FaultProducts}
        \cup {removeItem(World, productId) : productId \in ProductIds \cup FaultProductIds}
        \cup {updateQuantity(World, productId, quantity) :
                  productId \in ProductIds \cup FaultProductIds, quantity \in Quantities}
        \cup {clear(World)}

C19_RoundTrip ==
    LET loaded == loadCartFromStorage(saveCartToStorage(storage, state)).items
    IN /\ IdsOf(loaded) = IdsOf(state.items)
       /\ \A i \in DOMAIN state.items :
              /\ loaded[i].quantity = state.items[i].quantity
              /\ loaded[i].price = state.items[i].price

\* C20: after every public operation the count displayed is the sum of the
\* quantities, the empty-cart notice is visible exactly when the cart has no
\* line items and the total panel exactly when it has at least one.
C20_ViewMatchesState ==
    /\ view.count = calculateTotalCount(state.items)
    /\ view.emptyDisplay = "block" <=> state.items = <<>>
    /\ view.totalDisplay = "block" <=> state.items # <<>>

\* C22: changeQuantity(id, q) asks for confirmation only when the item of
\* that id is in the cart with a quantity <= 1 and q is not > 0.  When it
\* asks and window.confirm returns false, the cart, the stored text and the
\* view are left as they were; when it asks and window.confirm returns true
\* or undefined, or is no function, no line item of the id remains.  In
\* every other case the update is applied as updateQuantity applies it.
C22_ConfirmationOnlyForLastUnit ==
    \A productId \in ProductIds, quantity \in Quantities, outcome \in ConfirmOutcomes :
        LET item == findCartItemById(state.items, productId)
            asks == /\ Truthy(item)
                    /\ JsLe(item.quantity, Num(1))
                    /\ ~JsGt(quantity, Num(0))
            after == changeQuantityReturn(World, productId, quantity, outcome)
        IN /\ (asks /\ outcome = "false") => after = World
           /\ (asks /\ outcome \in {"true", "undefined", "not a function"})
                  => ~HasId(after.state.items, productId)
           /\ ~asks => after = updateQuantity(World, productId, quantity)

C25_AtMostOneListener ==
    /\ modal.keydownListeners <= 1
    /\ modal.clickListeners <= 1
    /\ modal.display = "none"
           => (modal.keydownListeners = 0 /\ modal.clickListeners = 0)

\* C30: the shipping fee is that of the subtotal; for the empty cart the
\* subtotal is 0, the fee 100 and calculateTotal() 100; for every cart the
\* grand total minus the subtotal is 0 or 100.
C30_FeeOfSubtotalAlsoWhenEmpty ==
    LET subtotal == calculateTotalPrice(state.items)
        derivedData == calculateCartDerivedData(state)
    IN /\ calculateTotalPrice(createEmptyCart.items) = Num(0)
       /\ calculateShippingFee(Num(0)) = Num(100)
       /\ calculateTotal([World EXCEPT !.state = createEmptyCart]) = Num(100)
       /\ derivedData.shippingFee = calculateShippingFee(subtotal)
       /\ JsSub(calculateTotal(World), subtotal) \in {Num(0), Num(100)}

\* The call left every object it was given as it was, returned a state
\* object that did not exist before, and that state is the expected one.
LeftInputAlone(heap, call, expected) ==
    /\ SubSeq(call.heap, 1, Len(heap)) = heap
    /\ call.result \notin DOMAIN heap
    /\ Deref(call.heap, call.result) = expected

\* C23: addItemToCart, removeItemFromCart, updateItemQuantity and clearCart
\* leave the state they are given, its item list and every line item in it
\* as they were, and return a distinct value.
C23_TransitionsLeaveInputAlone ==
    LET heap == HeapOf(state)
    IN /\ \A product \in Products \cup FaultProducts :
              LeftInputAlone(heap, addItemToCartOnHeap(heap, 1, product),
                             addItemToCart(state, product))
       /\ \A productId \in ProductIds \cup FaultProductIds :
              LeftInputAlone(heap, removeItemFromCartOnHeap(heap, 1, productId),
                             removeItemFromCart(state, productId))
       /\ \A productId \in ProductIds \cup FaultProductIds, quantity \in Quantities :
              LeftInputAlone(heap, updateItemQuantityOnHeap(heap, 1, productId, quantity),
                             updateItemQuantity(state, productId, quantity))
       /\ LeftInputAlone(heap, clearCartOnHeap(heap, 1), clearCart(state))

\* addToCart has incremented a line item of a cart of two, which can be
\* incremented, changed, removed and cleared again.
C23_Witness ==
    /\ lastOp.name = "addToCart"
    /\ lastOp.itemsBefore = 2
    /\ Len(state.items) = 2

\* The ids and quantities of the line items, in their order.
IdsAndQuantities(items) ==
    [i \in DOMAIN items |-> <<items[i].id, items[i].quantity>>]

\* C21: after any sequence of addToCart, removeFromCart, changeQuantity and
\* clearAllCart calls from an empty cart, the functional script holds the
\* line items (ids, quantities, order) the original script holds, and
\* calculateTotal() returns the same value in both.
C21_SameItemsAndTotalAsOriginal ==
    lastOp.name \in {"addToCart", "removeFromCart", "changeQuantity", "clearAllCart"}
        => /\ IdsAndQuantities(state.items) = IdsAndQuantities(cartItems)
           /\ calculateTotal(World) = original_calculateTotal(OriginalWorld).cartTotal

\* Every line item of the snapshot whose id no call removed or cleared is
\* among items.
PersistedKeptIn(items) ==
    \A i \in DOMAIN session.persisted :
        session.persisted[i].id \notin session.removed
            => HasId(items, session.persisted[i].id)

\* C27: in the original and in the SOLID script, whatever the order of the
\* cart operations and DOMContentLoaded, once the page has loaded every line
\* item of the snapshot of the earlier session that no operation removed or
\* cleared is in the cart, and at any time, also while the page is loading
\* and the cart is not hydrated yet, it is in storage.
C27_PersistedCartNeverLost ==
    LET items == IF page.script = "SOLID" THEN cart ELSE cartItems
        stored == SnapshotItems(page.localStorage)
    IN /\ page.readyState # "loading" => PersistedKeptIn(items)
       /\ PersistedKeptIn(stored)

\* The cart c, the snapshot and the display of page p agree.
SolidAgree(c, p) ==
    /\ SnapshotItems(p.localStorage) = c
    /\ p.dom.count = Cart_getTotalQuantity(c)
    /\ p.dom.items = [i \in DOMAIN c |-> cartItemToHtml(c[i])]

\* C28: in the SOLID script an addToCart that shows the failure
\* notification leaves the in-memory cart as it was, and a cart, snapshot
\* and display that agreed before an addToCart agree after it.
C28_FailedAddLeavesCartAlone ==
    [][(page'.script = "SOLID" /\ lastOp'.name = "addToCart")
           => /\ page'.notification = "add failed" => cart' = cart
              /\ SolidAgree(cart, page) => SolidAgree(cart', page')]_vars

\* C29: in the original script, after every addToCart, removeFromCart,
\* changeQuantity, clearAllCart and resetEverything, cartCount is the sum of
\* the quantities of cartItems and cartTotal the sum of price * quantity.
C29_CachedAggregatesNeverStale ==
    (/\ page.script = "cart-before-refactored.js"
     /\ lastOp.name \in {"addToCart", "removeFromCart", "changeQuantity",
                          "clearAllCart", "resetEverything"})
        => /\ cartCount = calculateTotalCount(cartItems)
           /\ cartTotal = calculateTotalPrice(cartItems)

\* C26: getIsLoading() is true exactly when a loadProducts() call (made
\* directly or by initialize()) has started and its fetch has not settled,
\* also when several such calls overlap.
C26_LoadingWhileAnyFetchPending ==
    ProductManager_getIsLoading(productManager)
        <=> \E i \in DOMAIN fetches : fetches[i] \in {"loadProducts", "initialize"}

====
